---------------------------- MODULE Spec2Model ----------------------------
(***************************************************************************)
(* A model of scrappie's padded matrix engine (src/scrappie_matrix.c) and  *)
(* of the sequence-to-squiggle driver (src/scrappie_squiggle.c).           *)
(*                                                                         *)
(* Memory is a heap of matrix structs and of data buffers; every C         *)
(* function is an operator from a heap and its arguments to a heap and a   *)
(* return value.  Each specification below draws the arguments of one      *)
(* group of functions from bounded sets and steps through the calls.       *)
(*                                                                         *)
(* Floats are exact rationals <<numerator, denominator>> in lowest terms,  *)
(* with <<1,0>>, <<-1,0>> and <<0,0>> for +inf, -inf and NaN: rounding is  *)
(* not modelled (and -0.0 is not told from 0.0).                           *)
(***************************************************************************)
EXTENDS Integers, Sequences, FiniteSets, TLC

VARIABLES
    build,  \* the build: [abi: "ILP32" or "LP64", ndebug: assertions compiled out]
    mem,    \* the heap: [mats: matrix structs, bufs: data buffers, ints: int
            \* arrays, bad: the faults (double free, use after free) so far]
    call,   \* the function called and its arguments
    env,    \* what the environment chose during the last call (allocator results)
    ret,    \* what the last call returned
    pc      \* the caller's position

vars == <<build, mem, call, env, ret, pc>>

---------------------------------------------------------------------------
(* Bounds of the model *)

\* width of int in bits (scaled down from 32); size_t has IntBits bits
\* under ILP32 and 2 * IntBits under LP64
IntBits == 6
\* largest logical row count of an input matrix
MaxNr == 5
\* largest column count of an input matrix
MaxNc == 2
\* matrix elements are drawn from 0 .. MaxVal (and padding from -1 .. MaxVal)
MaxVal == 2
\* longest base sequence
MaxSeq == 3

\* sizeof(__m128)
SizeofM128 == 16
\* sizeof(float)
SizeofFloat == 4

NULL == 0

---------------------------------------------------------------------------
(* Arithmetic *)

Pow2(n) == 2 ^ n

Abs(x) == IF x < 0 THEN -x ELSE x

Sgn(x) == IF x < 0 THEN -1 ELSE IF x > 0 THEN 1 ELSE 0

RECURSIVE GCD(_, _)
GCD(a, b) == IF b = 0 THEN a ELSE GCD(b, a % b)

INT_MAX == Pow2(IntBits - 1) - 1

SizeBits(a) == IF a = "ILP32" THEN IntBits ELSE 2 * IntBits

\* conversion to size_t and size_t arithmetic: modulo 2^SizeBits
ToSize(a, x) == x % Pow2(SizeBits(a))

\* two's complement wrap of a value to int
WrapInt(x) ==
    LET m == x % Pow2(IntBits)
    IN  IF m > INT_MAX THEN m - Pow2(IntBits) ELSE m

\* (int)ceil(nr / 4.0)
CeilQuarter(nr) == (nr + 3) \div 4

---------------------------------------------------------------------------
(* Floats *)

NormQ(n, d) ==
    IF d = 0 THEN <<Sgn(n), 0>>
    ELSE LET g == GCD(Abs(n), Abs(d))
             s == IF d < 0 THEN -1 ELSE 1
         IN  <<(s * n) \div g, (s * d) \div g>>

F(i) == <<i, 1>>

FNaN == <<0, 0>>

FIsSpecial(a) == a[2] = 0

FAdd(a, b) ==
    IF FIsSpecial(a) /\ FIsSpecial(b) THEN (IF a = b THEN a ELSE FNaN)
    ELSE IF FIsSpecial(a) THEN a
    ELSE IF FIsSpecial(b) THEN b
    ELSE NormQ(a[1] * b[2] + b[1] * a[2], a[2] * b[2])

FNeg(a) == <<-a[1], a[2]>>

FSub(a, b) == FAdd(a, FNeg(b))

FMul(a, b) ==
    IF FIsSpecial(a) \/ FIsSpecial(b) THEN <<Sgn(a[1]) * Sgn(b[1]), 0>>
    ELSE NormQ(a[1] * b[1], a[2] * b[2])

FDiv(a, b) ==
    IF a = FNaN \/ b = FNaN THEN FNaN
    ELSE IF FIsSpecial(b) THEN (IF FIsSpecial(a) THEN FNaN ELSE F(0))
    ELSE IF FIsSpecial(a) THEN <<Sgn(a[1]) * (IF b[1] < 0 THEN -1 ELSE 1), 0>>
    ELSE NormQ(a[1] * b[2], a[2] * b[1])

FAbs(a) == <<Abs(a[1]), a[2]>>

\* a < b; false when either is NaN
FLess(a, b) ==
    /\ a # FNaN
    /\ b # FNaN
    /\ IF FIsSpecial(a) \/ FIsSpecial(b)
       THEN a # b /\ (a = <<-1, 0>> \/ b = <<1, 0>>)
       ELSE a[1] * b[2] < b[1] * a[2]

---------------------------------------------------------------------------
(* The heap *)

EmptyMem == [mats |-> <<>>, bufs |-> <<>>, ints |-> <<>>, bad |-> {}]

\* malloc(sizeof(*mat)) followed by the stores to nr, nrq and nc
NewMat(m, nr, nrq, nc) ==
    [m EXCEPT !.mats = Append(@, [live |-> TRUE, nr |-> nr, nrq |-> nrq,
                                  nc |-> nc, data |-> NULL])]

\* free(mat); freeing a struct already freed is recorded as a fault
FreeMat(m, h) ==
    IF m.mats[h].live THEN [m EXCEPT !.mats[h].live = FALSE]
    ELSE [m EXCEPT !.bad = @ \cup {"double free"}]

\* aligned_alloc(16, bytes) followed by memset(.., 0, bytes)
NewBuf(m, bytes) ==
    [m EXCEPT !.bufs = Append(@, [live |-> TRUE,
                                  f |-> [i \in 1 .. (bytes \div SizeofFloat) |-> F(0)]])]

\* free(mat->data.v)
FreeBuf(m, p) ==
    IF m.bufs[p].live THEN [m EXCEPT !.bufs[p].live = FALSE]
    ELSE [m EXCEPT !.bad = @ \cup {"double free"}]

\* the scalar view data.f of a matrix, 1-based: data.f[i] is Data(m, h)[i + 1]
Data(m, h) == m.bufs[m.mats[h].data].f

\* a store through data.f; a store to a freed buffer is recorded as a fault
SetData(m, h, f) ==
    LET p == m.mats[h].data
    IN  IF m.mats[h].live /\ m.bufs[p].live THEN [m EXCEPT !.bufs[p].f = f]
        ELSE [m EXCEPT !.bad = @ \cup {"use after free"}]

\* the choices of the environment during a call: whether malloc, aligned_alloc
\* and calloc succeed, and whether an overflowing int multiplication is
\* evaluated widened (exactly) or wrapped
Envs == [malloc_ok : BOOLEAN, alloc_ok : BOOLEAN, calloc_ok : BOOLEAN, widen : BOOLEAN]

EnvOK == [malloc_ok |-> TRUE, alloc_ok |-> TRUE, calloc_ok |-> TRUE, widen |-> FALSE]

AllocsOK(e) == e.malloc_ok /\ e.alloc_ok /\ e.calloc_ok

\* the value of the int expression nrq * nc: the product when it fits; on
\* overflow (undefined) the wrapped product or, in a build that widens the
\* multiplication to size_t, the exact one
IntMul(x, y, e) ==
    IF x * y <= INT_MAX THEN x * y
    ELSE IF e.widen THEN x * y ELSE WrapInt(x * y)

\* the byte count nrq * nc * sizeof(__m128) of lines 34 and 40
AllocBytes(a, nrq, nc, e) ==
    ToSize(a, ToSize(a, IntMul(nrq, nc, e)) * SizeofM128)

\* the check of lines 25-31: TRUE when overflow is reported
OverflowDetected(a, nrq, nc) ==
    LET tmp1 == ToSize(a, nrq * SizeofM128)
        tmp2 == ToSize(a, tmp1 * nc)
    IN  tmp1 # 0 /\ (tmp2 \div tmp1) # nc

make_scrappie_matrix(a, m, nr, nc, e) ==
    LET nrq == CeilQuarter(nr)
        m1  == NewMat(m, nr, nrq, nc)
        mat == Len(m1.mats)
    IN  IF ~e.malloc_ok THEN [mem |-> m, ret |-> NULL]
        ELSE IF OverflowDetected(a, nrq, nc)
        THEN [mem |-> FreeMat(m1, mat), ret |-> NULL]
        ELSE IF ~e.alloc_ok
        THEN [mem |-> FreeMat(m1, mat), ret |-> NULL]
        ELSE LET m2 == NewBuf(m1, AllocBytes(a, nrq, nc, e))
             IN  [mem |-> [m2 EXCEPT !.mats[mat].data = Len(m2.bufs)],
                  ret |-> mat]

free_scrappie_matrix(m, mat) ==
    IF mat # NULL
    THEN [mem |-> FreeMat(FreeBuf(m, m.mats[mat].data), mat), ret |-> NULL]
    ELSE [mem |-> m, ret |-> NULL]

\* remake_scrappie_matrix without the release of the matrix it replaces
remake_scrappie_matrix_NoRelease(a, m, M, nr, nc, e) ==
    IF M = NULL \/ m.mats[M].nr # nr \/ m.mats[M].nc # nc
    THEN make_scrappie_matrix(a, m, nr, nc, e)
    ELSE [mem |-> m, ret |-> M]

remake_scrappie_matrix(a, m, M, nr, nc, e) ==
    IF M = NULL \/ m.mats[M].nr # nr \/ m.mats[M].nc # nc
    THEN make_scrappie_matrix(a, free_scrappie_matrix(m, M).mem, nr, nc, e)
    ELSE [mem |-> m, ret |-> M]

\* memcpy(dst, src, n floats): the first n elements of dst become those of src
MemcpyF(dst, src, n) ==
    [i \in 1 .. Len(dst) |-> IF i <= n THEN src[i] ELSE dst[i]]

\* copy_scrappie_matrix with the data pointer copied in the place of the data
copy_scrappie_matrix_Shallow(a, m, M, e) ==
    IF M = NULL THEN [mem |-> m, ret |-> NULL]
    ELSE IF ~e.malloc_ok THEN [mem |-> m, ret |-> NULL]
    ELSE LET m1 == NewMat(m, m.mats[M].nr, m.mats[M].nrq, m.mats[M].nc)
         IN  [mem |-> [m1 EXCEPT !.mats[Len(m1.mats)].data = m.mats[M].data],
              ret |-> Len(m1.mats)]

copy_scrappie_matrix(a, m, M, e) ==
    IF M = NULL THEN [mem |-> m, ret |-> NULL]
    ELSE LET r == make_scrappie_matrix(a, m, m.mats[M].nr, m.mats[M].nc, e)
             C == r.ret
         IN  IF C = NULL THEN r
             ELSE [mem |-> SetData(r.mem, C,
                               MemcpyF(Data(r.mem, C), Data(r.mem, M),
                                       (SizeofM128 * r.mem.mats[C].nrq * r.mem.mats[C].nc)
                                           \div SizeofFloat)),
                   ret |-> C]

zero_scrappie_matrix(m, M) ==
    IF M = NULL THEN m
    ELSE SetData(m, M,
             [i \in 1 .. Len(Data(m, M)) |->
                 IF i <= m.mats[M].nrq * 4 * m.mats[M].nc THEN F(0) ELSE Data(m, M)[i]])

\* x is the unpadded array, 1-based: x[i] of the code is x[i + 1] here
mat_from_array(a, m, x, nr, nc, e) ==
    LET r   == make_scrappie_matrix(a, m, nr, nc, e)
        res == r.ret
    IN  IF res = NULL THEN r
        ELSE LET nrq == r.mem.mats[res].nrq
                 old == Data(r.mem, res)
             IN  [mem |-> SetData(r.mem, res,
                              [i \in 1 .. Len(old) |->
                                  LET col == (i - 1) \div (nrq * 4)
                                      row == (i - 1) % (nrq * 4)
                                  IN  IF col < nc /\ row < nr
                                      THEN x[col * nr + row + 1] ELSE old[i]]),
                  ret |-> res]

\* a pointer to a float or char array: NULL, or the array a
NullArray == [null |-> TRUE, a |-> <<>>]

ArrayPtr(a) == [null |-> FALSE, a |-> a]

\* array_from_scrappie_matrix with offset_in computed without the padding
array_from_scrappie_matrix_Unpadded(m, mat, e) ==
    IF mat = NULL THEN NullArray
    ELSE LET nr   == m.mats[mat].nr
             nc   == m.mats[mat].nc
             nelt == nr * nc
         IN  IF ~e.calloc_ok THEN NullArray
             ELSE ArrayPtr([i \in 1 .. nelt |->
                      LET c == (i - 1) \div nr
                          r == (i - 1) % nr
                      IN  Data(m, mat)[c * nr + r + 1]])

\* the result is the calloc'ed array, or NULL
array_from_scrappie_matrix(m, mat, e) ==
    IF mat = NULL THEN NullArray
    ELSE LET nr   == m.mats[mat].nr
             nc   == m.mats[mat].nc
             nrq  == m.mats[mat].nrq
             nelt == nr * nc
         IN  IF ~e.calloc_ok THEN NullArray
             ELSE ArrayPtr([i \in 1 .. nelt |->
                      LET c == (i - 1) \div nr
                          r == (i - 1) % nr
                      IN  Data(m, mat)[c * nrq * 4 + r + 1]])

\* fabsf(x - y) > tol
FarApart(x, y, tol) == FLess(tol, FAbs(FSub(x, y)))

\* equality_scrappie_matrix with the inner loop run over the padded rows
equality_scrappie_matrix_Padded(m, mat1, mat2, tol) ==
    IF mat1 = NULL \/ mat2 = NULL THEN (mat1 = NULL /\ mat2 = NULL)
    ELSE IF m.mats[mat1].nc # m.mats[mat2].nc \/ m.mats[mat1].nr # m.mats[mat2].nr
    THEN FALSE
    ELSE \A c \in 0 .. m.mats[mat1].nc - 1 :
            LET offset == c * 4 * m.mats[mat1].nrq
            IN  \A r \in 0 .. 4 * m.mats[mat1].nrq - 1 :
                   ~FarApart(Data(m, mat1)[offset + r + 1],
                             Data(m, mat2)[offset + r + 1], tol)

equality_scrappie_matrix(m, mat1, mat2, tol) ==
    IF mat1 = NULL \/ mat2 = NULL THEN (mat1 = NULL /\ mat2 = NULL)
    ELSE IF m.mats[mat1].nc # m.mats[mat2].nc \/ m.mats[mat1].nr # m.mats[mat2].nr
    THEN FALSE
    ELSE \A c \in 0 .. m.mats[mat1].nc - 1 :
            LET offset == c * 4 * m.mats[mat1].nrq
            IN  \A r \in 0 .. m.mats[mat1].nr - 1 :
                   ~FarApart(Data(m, mat1)[offset + r + 1],
                             Data(m, mat2)[offset + r + 1], tol)

\* the offsets offset + r in the order the nested loops over col and r visit
\* them, offset being col * nrq * 4
ScanOffsets(nr, nrq, nc) ==
    [k \in 1 .. nr * nc |-> ((k - 1) \div nr) * nrq * 4 + ((k - 1) % nr)]

\* MaxTakes with <= in the place of <
MaxTakes_OrEqual(amax, x) == ~FLess(x, amax)

\* the comparison of the loop body of max_scrappie_matrix: amax < x
MaxTakes(amax, x) == FLess(amax, x)

\* the comparison of the loop body of min_scrappie_matrix: amin < x
MinTakes(amin, x) == FLess(amin, x)

\* the loops of max_scrappie_matrix and argmax_scrappie_matrix from step k on;
\* best is <<amax, imax>>
RECURSIVE MaxLoop(_, _, _, _)
MaxLoop(f, offs, k, best) ==
    IF k > Len(offs) THEN best
    ELSE MaxLoop(f, offs, k + 1,
                 IF MaxTakes(best[1], f[offs[k] + 1])
                 THEN <<f[offs[k] + 1], offs[k]>> ELSE best)

\* the loops of min_scrappie_matrix and argmin_scrappie_matrix from step k on;
\* best is <<amin, imin>>
RECURSIVE MinLoop(_, _, _, _)
MinLoop(f, offs, k, best) ==
    IF k > Len(offs) THEN best
    ELSE MinLoop(f, offs, k + 1,
                 IF MinTakes(best[1], f[offs[k] + 1])
                 THEN <<f[offs[k] + 1], offs[k]>> ELSE best)

max_scrappie_matrix(m, x) ==
    IF x = NULL THEN FNaN
    ELSE MaxLoop(Data(m, x), ScanOffsets(m.mats[x].nr, m.mats[x].nrq, m.mats[x].nc),
                 1, <<Data(m, x)[1], 0>>)[1]

min_scrappie_matrix(m, x) ==
    IF x = NULL THEN FNaN
    ELSE MinLoop(Data(m, x), ScanOffsets(m.mats[x].nr, m.mats[x].nrq, m.mats[x].nc),
                 1, <<Data(m, x)[1], 0>>)[1]

argmax_scrappie_matrix(m, x) ==
    IF x = NULL THEN -1
    ELSE MaxLoop(Data(m, x), ScanOffsets(m.mats[x].nr, m.mats[x].nrq, m.mats[x].nc),
                 1, <<Data(m, x)[1], 0>>)[2]

argmin_scrappie_matrix(m, x) ==
    IF x = NULL THEN -1
    ELSE MinLoop(Data(m, x), ScanOffsets(m.mats[x].nr, m.mats[x].nrq, m.mats[x].nc),
                 1, <<Data(m, x)[1], 0>>)[2]

\* lane l (0 .. 3) of the lane group data.v[v] of buffer f
Lane(f, v, l) == f[4 * v + l + 1]

\* lane l of the mask of line 389: _mm_set_ps(i >= 1, i >= 2, i >= 3, 0) lists
\* lanes 3, 2, 1, 0, and a lane compares greater than zero when its flag is set
MaskLane(i, l) ==
    CASE l = 3 -> i >= 1
      [] l = 2 -> i >= 2
      [] l = 1 -> i >= 3
      [] OTHER -> FALSE

\* lane l of sum after the loop of lines 392-395 has added rows row .. nrq - 1
RECURSIVE SumRows(_, _, _, _, _, _)
SumRows(f, offset, row, nrq, l, sum) ==
    IF row >= nrq THEN sum
    ELSE SumRows(f, offset, row + 1, nrq, l, FAdd(sum, Lane(f, offset + row, l)))

\* lane l of sum after line 396: the masked lanes of the last lane group are
\* taken off again
MaskedSum(f, offset, nrq, i, l) ==
    LET sum == SumRows(f, offset, 1, nrq, l, Lane(f, offset, l))
    IN  IF MaskLane(i, l) THEN FSub(sum, Lane(f, offset + nrq - 1, l)) ELSE sum

\* tsum of lines 397-398 (every lane of it): the two horizontal adds
ColumnTsum(f, offset, nrq, i) ==
    FAdd(FAdd(MaskedSum(f, offset, nrq, i, 0), MaskedSum(f, offset, nrq, i, 1)),
         FAdd(MaskedSum(f, offset, nrq, i, 2), MaskedSum(f, offset, nrq, i, 3)))

row_normalise_inplace(m, C) ==
    IF C = NULL THEN m
    ELSE LET nrq == m.mats[C].nrq
             i   == nrq * 4 - m.mats[C].nr
             f   == Data(m, C)
         IN  SetData(m, C,
                 [k \in 1 .. Len(f) |->
                     LET col == (k - 1) \div (4 * nrq)
                     IN  IF col < m.mats[C].nc
                         THEN FMul(f[k], FDiv(F(1), ColumnTsum(f, col * nrq, nrq, i)))
                         ELSE f[k]])

\* sum over l in 0 .. K - 1 of A[l + i * lda] * B[l + j * ldb]
RECURSIVE Dot(_, _, _, _, _, _, _, _)
Dot(A, lda, i, B, ldb, j, K, l) ==
    IF l >= K THEN F(0)
    ELSE FAdd(FMul(A[l + i * lda + 1], B[l + j * ldb + 1]),
              Dot(A, lda, i, B, ldb, j, K, l + 1))

\* cblas_sgemm(CblasColMajor, CblasTrans, CblasNoTrans, M, N, K, alpha, A, lda,
\* B, ldb, beta, C, ldc): C[i + j * ldc] becomes alpha * (A^T B)[i, j] +
\* beta * C[i + j * ldc] for i < M and j < N; the rest of C is not touched
cblas_sgemm(M, N, K, alpha, A, lda, B, ldb, beta, C, ldc) ==
    [k \in 1 .. Len(C) |->
        LET i == (k - 1) % ldc
            j == (k - 1) \div ldc
        IN  IF i < M /\ j < N
            THEN FAdd(FMul(alpha, Dot(A, lda, i, B, ldb, j, K, 0)), FMul(beta, C[k]))
            ELSE C[k]]

\* CopyBias with the loop over the columns left at its first iteration
CopyBias_FirstColumn(Cf, bf, nrq, nc) ==
    [k \in 1 .. Len(Cf) |->
        IF (k - 1) \div (4 * nrq) < 1 THEN bf[((k - 1) % (4 * nrq)) + 1] ELSE Cf[k]]

\* the loop of lines 339-341: the first nrq lane groups of b go to every
\* column of C
CopyBias(Cf, bf, nrq, nc) ==
    [k \in 1 .. Len(Cf) |->
        IF (k - 1) \div (4 * nrq) < nc THEN bf[((k - 1) % (4 * nrq)) + 1] ELSE Cf[k]]

\* what a call does besides returning: "return", or "abort" when an assertion
\* fails, or one of the outcomes of dereferencing NULL
UBOutcomes == {"segv", "return garbage"}

Returned(m, r) == [mem |-> m, ret |-> r, exit |-> "return"]

\* FailedAssert with RETURN_NULL_IF in the place of the assertion
FailedAssert_ReturnsNull(m, nd, u) == Returned(m, NULL)

\* a failed assert(cond): abort when assertions are compiled in; otherwise
\* the NULL handle is dereferenced and the outcome is u
FailedAssert(m, nd, u) ==
    IF ~nd THEN [mem |-> m, ret |-> NULL, exit |-> "abort"]
    ELSE [mem |-> m, ret |-> NULL, exit |-> u]

affine_map(a, nd, m, X, W, b, C, e, u) ==
    IF X = NULL THEN Returned(m, NULL)
    ELSE IF W = NULL \/ b = NULL THEN FailedAssert(m, nd, u)
    ELSE IF ~nd /\ m.mats[W].nr # m.mats[X].nr
    THEN [mem |-> m, ret |-> NULL, exit |-> "abort"]
    ELSE LET r  == remake_scrappie_matrix(a, m, C, m.mats[W].nc, m.mats[X].nc, e)
             C1 == r.ret
             m1 == r.mem
         IN  IF C1 = NULL THEN Returned(m1, NULL)
             ELSE LET biased == CopyBias(Data(m1, C1), Data(m1, b),
                                         m1.mats[C1].nrq, m1.mats[C1].nc)
                  IN  Returned(
                          SetData(m1, C1,
                              cblas_sgemm(m1.mats[W].nc, m1.mats[X].nc, m1.mats[W].nr,
                                          F(1), Data(m1, W), m1.mats[W].nrq * 4,
                                          Data(m1, X), m1.mats[X].nrq * 4,
                                          F(1), biased, m1.mats[C1].nrq * 4)),
                          C1)

affine_map2(a, nd, m, Xf, Xb, Wf, Wb, b, C, e, u) ==
    IF Xf = NULL THEN Returned(m, NULL)
    ELSE IF Xb = NULL THEN Returned(m, NULL)
    ELSE IF Wf = NULL \/ Wb = NULL \/ b = NULL THEN FailedAssert(m, nd, u)
    ELSE IF ~nd /\ (\/ m.mats[Wf].nr # m.mats[Xf].nr
                    \/ m.mats[Wb].nr # m.mats[Xb].nr
                    \/ m.mats[Xf].nc # m.mats[Xb].nc
                    \/ m.mats[Wf].nc # m.mats[Wb].nc)
    THEN [mem |-> m, ret |-> NULL, exit |-> "abort"]
    ELSE LET r  == remake_scrappie_matrix(a, m, C, m.mats[Wf].nc, m.mats[Xf].nc, e)
             C1 == r.ret
             m1 == r.mem
         IN  IF C1 = NULL THEN Returned(m1, NULL)
             ELSE LET biased == CopyBias(Data(m1, C1), Data(m1, b),
                                         m1.mats[C1].nrq, m1.mats[C1].nc)
                      fwd == cblas_sgemm(m1.mats[Wf].nc, m1.mats[Xf].nc, m1.mats[Wf].nr,
                                         F(1), Data(m1, Wf), m1.mats[Wf].nrq * 4,
                                         Data(m1, Xf), m1.mats[Xf].nrq * 4,
                                         F(1), biased, m1.mats[C1].nrq * 4)
                  IN  Returned(
                          SetData(m1, C1,
                              cblas_sgemm(m1.mats[Wb].nc, m1.mats[Xb].nc, m1.mats[Wb].nr,
                                          F(1), Data(m1, Wb), m1.mats[Wb].nrq * 4,
                                          Data(m1, Xb), m1.mats[Xb].nrq * 4,
                                          F(1), fwd, m1.mats[C1].nrq * 4)),
                          C1)

\* toupper(c)
ToUpper(c) ==
    CASE c = "a" -> "A"
      [] c = "c" -> "C"
      [] c = "g" -> "G"
      [] c = "t" -> "T"
      [] OTHER -> c

base_to_int(c, allow_lower) ==
    LET cu == IF allow_lower THEN ToUpper(c) ELSE c
    IN  CASE cu = "A" -> 0
          [] cu = "C" -> 1
          [] cu = "G" -> 2
          [] cu = "T" -> 3
          [] OTHER -> -1

\* the loop of lines 115-123 from index i on (seq[i] of the code is
\* seq[i + 1]); v is the array iseq so far.  The result is the array when the
\* loop runs to n, and NULL when it breaks
RECURSIVE EncodeLoop(_, _, _, _)
EncodeLoop(seq, n, i, v) ==
    IF i >= n THEN ArrayPtr(v)
    ELSE LET ib == base_to_int(seq[i + 1], TRUE)
         IN  IF ib = -1 THEN NullArray
             ELSE EncodeLoop(seq, n, i + 1, [v EXCEPT ![i + 1] = ib])

\* the result is the encoded array (kept in the heap as mem.ints[ret]) or
\* NULL; calloc's result is used unchecked, so with n > 0 a NULL from calloc
\* is stored through at line 117, with outcome u
encode_bases_to_integers(m, seq, n, e, u) ==
    IF ~e.calloc_ok
    THEN (IF n > 0 THEN [mem |-> m, ret |-> NULL, exit |-> u] ELSE Returned(m, NULL))
    ELSE LET iseq == EncodeLoop(seq, n, 0, [i \in 1 .. n |-> 0])
             m1   == [m EXCEPT !.ints = Append(@, [live |-> TRUE, v |-> iseq.a])]
             h    == Len(m1.ints)
         IN  IF iseq.null
             THEN Returned([m EXCEPT !.ints = Append(@, [live |-> FALSE, v |-> <<>>])], NULL)
             ELSE Returned(m1, h)

\* rows of a squiggle: the three signal parameters main_squiggle prints
SquiggleRows == 3

\* the network forward pass, which is not part of these sources: it fails
\* (fwd_ok false, or no position to predict) or returns a matrix with one
\* column per position
dna_squiggle(a, m, sequence, n, rescale, e, fwd_ok) ==
    IF ~fwd_ok \/ n = 0 THEN [mem |-> m, ret |-> NULL]
    ELSE make_scrappie_matrix(a, m, SquiggleRows, n, e)

\* fwd lists the encodings handed to dna_squiggle
sequence_to_squiggle(a, m, base_seq, n, rescale, e, u, fwd_ok) ==
    IF base_seq.null THEN [mem |-> m, ret |-> NULL, exit |-> "return", fwd |-> <<>>]
    ELSE LET enc == encode_bases_to_integers(m, base_seq.a, n, e, u)
         IN  IF enc.exit # "return"
             THEN [mem |-> enc.mem, ret |-> NULL, exit |-> enc.exit, fwd |-> <<>>]
             ELSE IF enc.ret = NULL
             THEN [mem |-> enc.mem, ret |-> NULL, exit |-> "return", fwd |-> <<>>]
             ELSE LET sq == dna_squiggle(a, enc.mem, enc.ret, n, rescale, e, fwd_ok)
                  IN  [mem  |-> [sq.mem EXCEPT !.ints[enc.ret].live = FALSE],
                       ret  |-> sq.ret,
                       exit |-> "return",
                       fwd  |-> <<enc.mem.ints[enc.ret].v>>]

\* the lines main_squiggle prints for a squiggle (lines 175-182): the header
\* "#name", then for each column i the index, the base seq.s[i] and
\* data.f[offset + 0 .. 2] with offset = i * nrq * 4
SquiggleLines(m, squiggle, name, s) ==
    <<[name |-> name, i |-> -1, base |-> "#", f |-> <<>>]>> \o
    [k \in 1 .. m.mats[squiggle].nc |->
        LET offset == (k - 1) * m.mats[squiggle].nrq * 4
        IN  [name |-> name, i |-> k - 1, base |-> s[k],
             f |-> <<Data(m, squiggle)[offset + 1], Data(m, squiggle)[offset + 2],
                     Data(m, squiggle)[offset + 3]>>]]

\* reads_limit > 0 && reads_started >= reads_limit
LimitReached(reads_limit, reads_started) ==
    reads_limit > 0 /\ reads_started >= reads_limit

\* the body of the while loop of main_squiggle (lines 171-185) for the record
\* rec named name: the output written and the heap afterwards; last tells
\* what became of the call of sequence_to_squiggle.  A store through NULL
\* that does not trap leaves the call returning; its result is then taken as
\* NULL
SquiggleRecord(a, m, name, rec, rescale, e, u, fwd_ok) ==
    LET r == sequence_to_squiggle(a, m, ArrayPtr(rec), Len(rec), rescale, e, u, fwd_ok)
    IN  IF r.exit = "segv"
        THEN [mem |-> r.mem, lines |-> <<>>, last |-> "segv"]
        ELSE IF r.ret = NULL
        THEN [mem |-> r.mem, lines |-> <<>>, last |-> "absent"]
        ELSE [mem   |-> free_scrappie_matrix(r.mem, r.ret).mem,
              lines |-> SquiggleLines(r.mem, r.ret, name, rec),
              last  |-> "present"]

---------------------------------------------------------------------------
(* Inputs *)

Builds == [abi : {"ILP32", "LP64"}, ndebug : BOOLEAN]

\* the build the matrix kernels are exercised on
Lp64Debug == [abi |-> "LP64", ndebug |-> FALSE]

PadLen(nr) == 4 * CeilQuarter(nr)

Vals == 0 .. MaxVal

\* the seeds of the input patterns
Seeds == [a : Vals, b : Vals, s : Vals]

\* element (r, c) of the pattern of seed sd
Pat(sd, r, c) == (sd.a * r + sd.b * c + sd.s) % (MaxVal + 1)

FInf == <<1, 0>>

\* what the padding lanes of an input may hold: any float, among them the
\* zero of a fresh allocation, finite values, infinity and NaN
PadVals == {F(-1), F(0), F(MaxVal + 1), FInf, FNaN}

\* a padded buffer: element (r, c) is F(val(r, c)), padding lanes hold pad
BufOf(nr, nc, val(_, _), pad) ==
    [i \in 1 .. PadLen(nr) * nc |->
        LET c == (i - 1) \div PadLen(nr)
            r == (i - 1) % PadLen(nr)
        IN  IF r < nr THEN F(val(r, c)) ELSE pad]

\* the heap m with one more live matrix of shape (nr, nc) holding buffer f
WithMat(m, nr, nc, f) ==
    [m EXCEPT !.bufs = Append(@, [live |-> TRUE, f |-> f]),
              !.mats = Append(@, [live |-> TRUE, nr |-> nr, nrq |-> CeilQuarter(nr),
                                  nc |-> nc, data |-> Len(m.bufs) + 1])]

\* logical element (r, c) of a matrix
Elt(m, h, r, c) == Data(m, h)[c * 4 * m.mats[h].nrq + r + 1]

IsPadding(m, h, i) == ((i - 1) % (4 * m.mats[h].nrq)) >= m.mats[h].nr

---------------------------------------------------------------------------
(* Allocation: make_scrappie_matrix over every shape an int can hold *)

InitAlloc ==
    /\ build \in Builds
    /\ ~build.ndebug
    /\ mem = EmptyMem
    /\ call \in [fn : {"make_scrappie_matrix"}, nr : 1 .. INT_MAX, nc : 1 .. INT_MAX]
    /\ env = EnvOK
    /\ ret = NULL
    /\ pc = "start"

CallMake ==
    /\ pc = "start"
    /\ call.fn = "make_scrappie_matrix"
    /\ \E e \in Envs :
         LET r == make_scrappie_matrix(build.abi, mem, call.nr, call.nc, e)
         IN  /\ e.calloc_ok
             /\ env' = e
             /\ mem' = r.mem
             /\ ret' = r.ret
    /\ pc' = "done"
    /\ UNCHANGED <<build, call>>

NextAlloc == CallMake

SpecAlloc == InitAlloc /\ [][NextAlloc]_vars

\* C1: whenever make_scrappie_matrix returns a matrix, the buffer it
\* allocated and zero-filled has the true padded size nrq * nc * 16 bytes
\* (4 * nrq * nc floats): a shape whose size cannot be computed returns NULL.
C1_AllocSizeExact ==
    (pc = "done" /\ call.fn = "make_scrappie_matrix" /\ ret # NULL) =>
        Len(Data(mem, ret)) * SizeofFloat
            = CeilQuarter(call.nr) * call.nc * SizeofM128

---------------------------------------------------------------------------
(* Conversion: mat_from_array, then array_from_scrappie_matrix *)

InitConv ==
    /\ build = Lp64Debug
    /\ mem = EmptyMem
    /\ \E nr \in 1 .. MaxNr, nc \in 1 .. MaxNc, sd \in Seeds :
         call = [fn |-> "mat_from_array", nr |-> nr, nc |-> nc,
                 x |-> [i \in 1 .. nr * nc |-> F(Pat(sd, (i - 1) % nr, (i - 1) \div nr))]]
    /\ env = EnvOK
    /\ ret = NULL
    /\ pc = "start"

CallFromArray ==
    /\ pc = "start"
    /\ call.fn = "mat_from_array"
    /\ \E e \in Envs :
         LET r == mat_from_array(build.abi, mem, call.x, call.nr, call.nc, e)
         IN  /\ e.calloc_ok /\ ~e.widen
             /\ env' = e
             /\ mem' = r.mem
             /\ ret' = r.ret
    /\ call' = [call EXCEPT !.fn = "array_from_scrappie_matrix"]
    /\ pc' = "made"
    /\ UNCHANGED build

CallToArray ==
    /\ pc = "made"
    /\ call.fn = "array_from_scrappie_matrix"
    /\ \E e \in Envs :
         /\ e.malloc_ok /\ e.alloc_ok /\ ~e.widen
         /\ env' = [e EXCEPT !.malloc_ok = env.malloc_ok, !.alloc_ok = env.alloc_ok]
         /\ ret' = [mat |-> ret, array |-> array_from_scrappie_matrix(mem, ret, e)]
    /\ pc' = "done"
    /\ UNCHANGED <<build, mem, call>>

NextConv == CallFromArray \/ CallToArray

SpecConv == InitConv /\ [][NextConv]_vars

\* C6: the padded matrix mat_from_array builds holds x in its logical
\* elements and zero in every padding element, and
\* array_from_scrappie_matrix of it is x, element for element; either
\* result is absent only when an allocation failed.
C6_RoundTrip ==
    /\ (pc = "made" /\ AllocsOK(env)) => ret # NULL
    /\ (pc = "made" /\ ret # NULL) =>
          /\ mem.mats[ret].nr = call.nr /\ mem.mats[ret].nc = call.nc
          /\ Len(Data(mem, ret)) = PadLen(call.nr) * call.nc
          /\ \A i \in 1 .. Len(Data(mem, ret)) :
                IsPadding(mem, ret, i) => Data(mem, ret)[i] = F(0)
          /\ \A c \in 0 .. call.nc - 1, r \in 0 .. call.nr - 1 :
                Elt(mem, ret, r, c) = call.x[c * call.nr + r + 1]
    /\ (pc = "done" /\ AllocsOK(env)) => ~ret.array.null
    /\ (pc = "done" /\ ~ret.array.null) => ret.array.a = call.x

C6_Witness ==
    /\ pc = "done"
    /\ call.nr = 5 /\ call.nc = 2
    /\ ~ret.array.null
    /\ ret.array.a = call.x
    /\ \E i \in 1 .. 10 : call.x[i] # F(0)

---------------------------------------------------------------------------
(* Reductions: max, min, argmax and argmin of one matrix *)

InitReduce ==
    /\ build = Lp64Debug
    /\ \/ /\ mem = EmptyMem
          /\ call = [fn |-> "none", x |-> NULL]
       \/ \E nr \in 1 .. MaxNr, nc \in 1 .. MaxNc, sd \in Seeds, pad \in PadVals :
             LET val(r, c) == Pat(sd, r, c)
             IN  /\ mem = WithMat(EmptyMem, nr, nc, BufOf(nr, nc, val, pad))
                 /\ call = [fn |-> "none", x |-> 1]
    /\ env = EnvOK
    /\ ret = NULL
    /\ pc = "start"

CallMax ==
    /\ pc = "start"
    /\ call' = [call EXCEPT !.fn = "max_scrappie_matrix"]
    /\ ret' = max_scrappie_matrix(mem, call.x)
    /\ pc' = "done"
    /\ UNCHANGED <<build, mem, env>>

CallMin ==
    /\ pc = "start"
    /\ call' = [call EXCEPT !.fn = "min_scrappie_matrix"]
    /\ ret' = min_scrappie_matrix(mem, call.x)
    /\ pc' = "done"
    /\ UNCHANGED <<build, mem, env>>

CallArgmax ==
    /\ pc = "start"
    /\ call' = [call EXCEPT !.fn = "argmax_scrappie_matrix"]
    /\ ret' = argmax_scrappie_matrix(mem, call.x)
    /\ pc' = "done"
    /\ UNCHANGED <<build, mem, env>>

CallArgmin ==
    /\ pc = "start"
    /\ call' = [call EXCEPT !.fn = "argmin_scrappie_matrix"]
    /\ ret' = argmin_scrappie_matrix(mem, call.x)
    /\ pc' = "done"
    /\ UNCHANGED <<build, mem, env>>

NextReduce == CallMax \/ CallMin \/ CallArgmax \/ CallArgmin

SpecReduce == InitReduce /\ [][NextReduce]_vars

\* the logical positions <<r, c>> of matrix h
Logical(m, h) == (0 .. m.mats[h].nr - 1) \X (0 .. m.mats[h].nc - 1)

\* the flat padded-buffer offset of logical position p = <<r, c>>
FlatOffset(m, h, p) == p[2] * 4 * m.mats[h].nrq + p[1]

\* p comes before q in the column-major, row-ascending scan
ScansBefore(p, q) == p[2] < q[2] \/ (p[2] = q[2] /\ p[1] < q[1])

\* C3: on a non-absent matrix min_scrappie_matrix returns the least logical
\* element, and argmin_scrappie_matrix the flat offset col * 4 * nrq + row of
\* a least logical element.
C3_MinIsMinimum ==
    (pc = "done" /\ call.x # NULL) =>
        /\ call.fn = "min_scrappie_matrix" =>
              /\ \E p \in Logical(mem, call.x) : Elt(mem, call.x, p[1], p[2]) = ret
              /\ \A p \in Logical(mem, call.x) : ~FLess(Elt(mem, call.x, p[1], p[2]), ret)
        /\ call.fn = "argmin_scrappie_matrix" =>
              \E p \in Logical(mem, call.x) :
                 /\ ret = FlatOffset(mem, call.x, p)
                 /\ \A q \in Logical(mem, call.x) :
                       ~FLess(Elt(mem, call.x, q[1], q[2]), Elt(mem, call.x, p[1], p[2]))

\* C9: on a non-absent matrix max_scrappie_matrix returns the largest logical
\* element; argmax_scrappie_matrix returns the flat offset col * 4 * nrq + row
\* of a logical (never a padding) element that is largest, and of the first
\* such element in the column-major, row-ascending scan; argmax of an absent
\* matrix is -1.
C9_MaxAndArgmax ==
    /\ (pc = "done" /\ call.x # NULL /\ call.fn = "max_scrappie_matrix") =>
          /\ \E p \in Logical(mem, call.x) : Elt(mem, call.x, p[1], p[2]) = ret
          /\ \A p \in Logical(mem, call.x) : ~FLess(ret, Elt(mem, call.x, p[1], p[2]))
    /\ (pc = "done" /\ call.x # NULL /\ call.fn = "argmax_scrappie_matrix") =>
          \E p \in Logical(mem, call.x) :
             /\ ret = FlatOffset(mem, call.x, p)
             /\ ~IsPadding(mem, call.x, ret + 1)
             /\ \A q \in Logical(mem, call.x) :
                   /\ ~FLess(Elt(mem, call.x, p[1], p[2]), Elt(mem, call.x, q[1], q[2]))
                   /\ ScansBefore(q, p) =>
                         FLess(Elt(mem, call.x, q[1], q[2]), Elt(mem, call.x, p[1], p[2]))
    /\ (pc = "done" /\ call.x = NULL /\ call.fn = "argmax_scrappie_matrix") => ret = -1

\* a tie for the maximum in the second column, with larger values in the
\* padding lanes, and argmax has answered with the first of the tied offsets
C9_Witness ==
    /\ pc = "done"
    /\ call.fn = "argmax_scrappie_matrix"
    /\ call.x # NULL
    /\ mem.mats[call.x].nr = 2 /\ mem.mats[call.x].nc = 2
    /\ Elt(mem, call.x, 0, 1) = F(2) /\ Elt(mem, call.x, 1, 1) = F(2)
    /\ Elt(mem, call.x, 0, 0) = F(1) /\ Elt(mem, call.x, 1, 0) = F(1)
    /\ Data(mem, call.x)[3] = FInf
    /\ ret = 4

---------------------------------------------------------------------------
(* Equality: equality_scrappie_matrix of two matrices *)

\* the tolerances tried: negative, zero, a half and one
Tols == {F(-1), F(0), <<1, 2>>, F(1)}

\* buffer f with delta added to the element at index i
Perturbed(f, i, delta) == [f EXCEPT ![i] = FAdd(@, F(delta))]

\* mat1 is matrix 1 (when present), mat2 the matrix after it (when present)
InitEq ==
    /\ build = Lp64Debug
    /\ \E nr \in 1 .. MaxNr, nc \in 1 .. MaxNc, sd \in Seeds, tol \in Tols :
          LET val(r, c) == Pat(sd, r, c)
              A  == BufOf(nr, nc, val, F(0))
              mA == WithMat(EmptyMem, nr, nc, A)
          IN  \/ /\ mem = EmptyMem
                 /\ call = [fn |-> "equality_scrappie_matrix",
                            mat1 |-> NULL, mat2 |-> NULL, tol |-> tol]
              \/ /\ mem = mA
                 /\ \/ call = [fn |-> "equality_scrappie_matrix",
                               mat1 |-> 1, mat2 |-> NULL, tol |-> tol]
                    \/ call = [fn |-> "equality_scrappie_matrix",
                               mat1 |-> NULL, mat2 |-> 1, tol |-> tol]
              \/ \E i \in 1 .. Len(A), delta \in -2 .. 2 :
                    /\ mem = WithMat(mA, nr, nc, Perturbed(A, i, delta))
                    /\ call = [fn |-> "equality_scrappie_matrix",
                               mat1 |-> 1, mat2 |-> 2, tol |-> tol]
              \/ \E nr2 \in 1 .. MaxNr, nc2 \in 1 .. MaxNc :
                    /\ nr2 # nr \/ nc2 # nc
                    /\ mem = WithMat(mA, nr2, nc2, BufOf(nr2, nc2, val, F(0)))
                    /\ call = [fn |-> "equality_scrappie_matrix",
                               mat1 |-> 1, mat2 |-> 2, tol |-> tol]
    /\ env = EnvOK
    /\ ret = NULL
    /\ pc = "start"

CallEquality ==
    /\ pc = "start"
    /\ call.fn = "equality_scrappie_matrix"
    /\ ret' = equality_scrappie_matrix(mem, call.mat1, call.mat2, call.tol)
    /\ pc' = "done"
    /\ UNCHANGED <<build, mem, call, env>>

NextEq == CallEquality

SpecEq == InitEq /\ [][NextEq]_vars

\* |x - y| <= tol, for finite x, y and tol
Within(x, y, tol) ==
    LET d == FSub(x, y)
    IN  Abs(d[1]) * tol[2] <= tol[1] * d[2]

\* C7: equality_scrappie_matrix is true of two absent matrices, false when
\* exactly one is absent, false when the shapes (nr, nc) differ, and otherwise
\* true exactly when every pair of logical elements differs by at most tol;
\* what the padding rows hold does not enter the result.
C7_Equality ==
    pc = "done" =>
        ret = IF call.mat1 = NULL \/ call.mat2 = NULL
              THEN call.mat1 = NULL /\ call.mat2 = NULL
              ELSE /\ mem.mats[call.mat1].nr = mem.mats[call.mat2].nr
                   /\ mem.mats[call.mat1].nc = mem.mats[call.mat2].nc
                   /\ \A p \in Logical(mem, call.mat1) :
                         Within(Elt(mem, call.mat1, p[1], p[2]),
                                Elt(mem, call.mat2, p[1], p[2]), call.tol)

\* two matrices of one shape that differ in a padding element only, found
\* equal at tolerance zero
C7_Witness ==
    /\ pc = "done"
    /\ call.mat1 # NULL /\ call.mat2 # NULL
    /\ call.tol = F(0)
    /\ mem.mats[call.mat1].nr = 3 /\ mem.mats[call.mat2].nr = 3
    /\ mem.mats[call.mat1].nc = 2 /\ mem.mats[call.mat2].nc = 2
    /\ Data(mem, call.mat1)[8] # Data(mem, call.mat2)[8]
    /\ ret = TRUE

---------------------------------------------------------------------------
(* Copy: copy_scrappie_matrix, then stores to, zeroing and release of the copy *)

\* stores made to the copy before it is left alone
MaxStores == 2

InitCopy ==
    /\ build = Lp64Debug
    /\ \/ /\ mem = EmptyMem
          /\ call = [fn |-> "copy_scrappie_matrix", M |-> NULL, orig |-> EmptyMem, stores |-> 0]
       \/ \E nr \in 1 .. MaxNr, nc \in 1 .. MaxNc, sd \in Seeds :
             LET val(r, c) == Pat(sd, r, c)
                 m0 == WithMat(EmptyMem, nr, nc, BufOf(nr, nc, val, F(-1)))
             IN  /\ mem = m0
                 /\ call = [fn |-> "copy_scrappie_matrix", M |-> 1, orig |-> m0, stores |-> 0]
    /\ env = EnvOK
    /\ ret = NULL
    /\ pc = "start"

CallCopy ==
    /\ pc = "start"
    /\ call.fn = "copy_scrappie_matrix"
    /\ \E e \in Envs :
         LET r == copy_scrappie_matrix(build.abi, mem, call.M, e)
         IN  /\ e.calloc_ok /\ ~e.widen
             /\ env' = e
             /\ mem' = r.mem
             /\ ret' = r.ret
    /\ pc' = "copied"
    /\ UNCHANGED <<build, call>>

\* the caller stores the value MaxVal + 1 to one element of the copy
StoreToCopy ==
    /\ pc = "copied"
    /\ ret # NULL
    /\ call.stores < MaxStores
    /\ \E i \in 1 .. Len(Data(mem, ret)) :
          mem' = SetData(mem, ret, [Data(mem, ret) EXCEPT ![i] = F(MaxVal + 1)])
    /\ call' = [call EXCEPT !.stores = @ + 1]
    /\ UNCHANGED <<build, env, ret, pc>>

ZeroCopy ==
    /\ pc = "copied"
    /\ ret # NULL
    /\ mem' = zero_scrappie_matrix(mem, ret)
    /\ call' = [call EXCEPT !.stores = MaxStores]
    /\ UNCHANGED <<build, env, ret, pc>>

FreeCopy ==
    /\ pc = "copied"
    /\ mem' = free_scrappie_matrix(mem, ret).mem
    /\ pc' = "released"
    /\ UNCHANGED <<build, env, call, ret>>

NextCopy == CallCopy \/ StoreToCopy \/ ZeroCopy \/ FreeCopy

SpecCopy == InitCopy /\ [][NextCopy]_vars

\* C8: the copy of a matrix M has M's shape and M's whole padded buffer, so it
\* is equality_scrappie_matrix-equal to M at tolerance 0, and it has storage
\* of its own: whatever is then stored to the copy, and after the copy is
\* zeroed or released, M is live with its shape and every element as before.
\* The copy of an absent matrix is absent, and so is a copy only when M is
\* absent or an allocation failed.
C8_CopyIsDeep ==
    /\ (pc # "start" /\ call.M = NULL) => ret = NULL
    /\ (pc # "start" /\ call.M # NULL /\ AllocsOK(env)) => ret # NULL
    /\ call.M # NULL =>
          /\ mem.mats[call.M] = call.orig.mats[call.M]
          /\ mem.bufs[mem.mats[call.M].data] = call.orig.bufs[call.orig.mats[call.M].data]
          /\ mem.bad = {}
    /\ (pc = "copied" /\ ret # NULL) =>
          /\ ret # call.M
          /\ mem.mats[ret].live
          /\ mem.mats[ret].data # mem.mats[call.M].data
          /\ mem.mats[ret].nr = mem.mats[call.M].nr
          /\ mem.mats[ret].nc = mem.mats[call.M].nc
          /\ mem.mats[ret].nrq = mem.mats[call.M].nrq
          /\ call.stores = 0 =>
                /\ Data(mem, ret) = Data(mem, call.M)
                /\ equality_scrappie_matrix(mem, call.M, ret, F(0))

\* the copy of a matrix with padding has been stored to twice and released,
\* and differs from M
C8_Witness ==
    /\ pc = "released"
    /\ call.M # NULL /\ ret # NULL
    /\ call.stores = MaxStores
    /\ mem.mats[call.M].nr = 5 /\ mem.mats[call.M].nc = 2
    /\ ~mem.mats[ret].live
    /\ Data(mem, ret) # Data(mem, call.M)

---------------------------------------------------------------------------
(* Normalisation: row_normalise_inplace of one matrix *)

InitNorm ==
    /\ build = Lp64Debug
    /\ \/ /\ mem = EmptyMem
          /\ call = [fn |-> "row_normalise_inplace", C |-> NULL, orig |-> <<>>]
       \/ \E nr \in 1 .. MaxNr, nc \in 1 .. MaxNc, sd \in Seeds, pad \in PadVals,
             base \in {0, 1} :
             LET val(r, c) == base + Pat(sd, r, c)
             IN  /\ mem = WithMat(EmptyMem, nr, nc, BufOf(nr, nc, val, pad))
                 /\ call = [fn |-> "row_normalise_inplace", C |-> 1,
                            orig |-> BufOf(nr, nc, val, pad)]
    /\ env = EnvOK
    /\ ret = NULL
    /\ pc = "start"

CallRowNormalise ==
    /\ pc = "start"
    /\ call.fn = "row_normalise_inplace"
    /\ mem' = row_normalise_inplace(mem, call.C)
    /\ pc' = "done"
    /\ UNCHANGED <<build, call, env, ret>>

NextNorm == CallRowNormalise

SpecNorm == InitNorm /\ [][NextNorm]_vars

\* the sum of f over the logical rows r .. nr - 1 of column c
RECURSIVE LogicalSum(_, _, _, _, _)
LogicalSum(f, nr, nrq, c, r) ==
    IF r >= nr THEN F(0)
    ELSE FAdd(f[c * 4 * nrq + r + 1], LogicalSum(f, nr, nrq, c, r + 1))

\* C5: row_normalise_inplace leaves in every logical element the element
\* times the reciprocal of the sum of its column over the logical rows
\* [0, nr), whatever the padding lanes held and for every padding count 0..3;
\* a column of positive elements then sums to 1 over its logical rows.
C5_RowNormalise ==
    (pc = "done" /\ call.C # NULL) =>
        LET nr  == mem.mats[call.C].nr
            nrq == mem.mats[call.C].nrq
        IN  \A c \in 0 .. mem.mats[call.C].nc - 1 :
               /\ \A r \in 0 .. nr - 1 :
                     Elt(mem, call.C, r, c)
                         = FMul(call.orig[c * 4 * nrq + r + 1],
                                FDiv(F(1), LogicalSum(call.orig, nr, nrq, c, 0)))
               /\ (\A r \in 0 .. nr - 1 : call.orig[c * 4 * nrq + r + 1][1] > 0) =>
                     LogicalSum(Data(mem, call.C), nr, nrq, c, 0) = F(1)

---------------------------------------------------------------------------
(* Affine maps: affine_map and affine_map2, inputs present or absent *)

\* the heap of an affine call: X (or Xf) is matrix 1, W (or Wf) 2, b 3, Xb 4,
\* Wb 5 and, when the caller passes a C, it is matrix 6; the padding lanes
\* of all but the bias hold pad
H == [X |-> 1, W |-> 2, b |-> 3, Xb |-> 4, Wb |-> 5, C |-> 6]

\* the seed sd with its components rotated
Rot(sd) == [a |-> sd.b, b |-> sd.s, s |-> sd.a]

AffineHeap(nr, nk, nc, sd, pad, identity, cnr, cnc) ==
    LET xv(r, c) == Pat(sd, r, c)
        wv(r, k) == IF identity THEN (IF r = k THEN 1 ELSE 0) ELSE Pat(Rot(sd), r, k)
        bv(k, c) == IF identity THEN 0 ELSE Pat(Rot(Rot(sd)), k, c)
        xb(r, c) == Pat(Rot(sd), c, r)
        wb(r, k) == Pat(sd, k, r + 1)
        cv(k, c) == MaxVal + 1
        m1 == WithMat(EmptyMem, nr, nc, BufOf(nr, nc, xv, pad))
        m2 == WithMat(m1, nr, nk, BufOf(nr, nk, wv, pad))
        m3 == WithMat(m2, nk, 1, BufOf(nk, 1, bv, F(0)))
        m4 == WithMat(m3, nr, nc, BufOf(nr, nc, xb, pad))
        m5 == WithMat(m4, nr, nk, BufOf(nr, nk, wb, pad))
    IN  WithMat(m5, cnr, cnc, BufOf(cnr, cnc, cv, pad))

\* what the caller passes as C: nothing, a matrix of the shape of the result,
\* or a matrix of another shape
COptions == {"absent", "same shape", "other shape"}

InitAffine ==
    /\ \E nr \in 1 .. MaxNr, nk \in 1 .. MaxNr, nc \in 1 .. MaxNc, sd \in Seeds,
          copt \in COptions, identity \in BOOLEAN :
          /\ identity => (nk = nr /\ sd.a = 1)
          /\ mem = AffineHeap(nr, nk, nc, sd, FNaN, identity,
                              IF copt = "other shape" THEN nk + 1 ELSE nk, nc)
          /\ \/ /\ build = Lp64Debug
                /\ call = [fn |-> "affine_map", X |-> H.X, W |-> H.W, b |-> H.b,
                           Xb |-> NULL, Wb |-> NULL,
                           C |-> IF copt = "absent" THEN NULL ELSE H.C,
                           identity |-> identity, family |-> "shapes", orig |-> mem]
             \/ /\ nr = 2 /\ nk = 3 /\ ~identity /\ copt # "other shape"
                /\ build \in [abi : {"LP64"}, ndebug : BOOLEAN]
                /\ \E fn \in {"affine_map", "affine_map2"},
                      X \in {NULL, H.X}, W \in {NULL, H.W}, b \in {NULL, H.b},
                      Xb \in {NULL, H.Xb}, Wb \in {NULL, H.Wb} :
                      /\ fn = "affine_map" => (Xb = NULL /\ Wb = NULL)
                      /\ call = [fn |-> fn, X |-> X, W |-> W, b |-> b, Xb |-> Xb,
                                 Wb |-> Wb, C |-> IF copt = "absent" THEN NULL ELSE H.C,
                                 identity |-> FALSE, family |-> "absent", orig |-> mem]
    /\ env = EnvOK
    /\ ret = NULL
    /\ pc = "start"

CallAffineMap ==
    /\ pc = "start"
    /\ call.fn = "affine_map"
    /\ \E e \in Envs, u \in UBOutcomes :
         LET r == affine_map(build.abi, build.ndebug, mem, call.X, call.W, call.b,
                             call.C, e, u)
         IN  /\ e.calloc_ok /\ ~e.widen
             /\ env' = e
             /\ mem' = r.mem
             /\ ret' = [val |-> r.ret, exit |-> r.exit]
    /\ pc' = "done"
    /\ UNCHANGED <<build, call>>

CallAffineMap2 ==
    /\ pc = "start"
    /\ call.fn = "affine_map2"
    /\ \E e \in Envs, u \in UBOutcomes :
         LET r == affine_map2(build.abi, build.ndebug, mem, call.X, call.Xb, call.W,
                              call.Wb, call.b, call.C, e, u)
         IN  /\ e.calloc_ok /\ ~e.widen
             /\ env' = e
             /\ mem' = r.mem
             /\ ret' = [val |-> r.ret, exit |-> r.exit]
    /\ pc' = "done"
    /\ UNCHANGED <<build, call>>

NextAffine == CallAffineMap \/ CallAffineMap2

SpecAffine == InitAffine /\ [][NextAffine]_vars

\* sum over r in r0 .. nr - 1 of W[r, k] * X[r, c]
RECURSIVE WtX(_, _, _, _, _, _)
WtX(m, W, X, k, c, r0) ==
    IF r0 >= m.mats[X].nr THEN F(0)
    ELSE FAdd(FMul(Elt(m, W, r0, k), Elt(m, X, r0, c)), WtX(m, W, X, k, c, r0 + 1))

\* C2: with X of shape [nr, nc], W of shape [nr, nk] and a bias of nk rows,
\* and C absent, of the shape of the result with other contents, or of another
\* shape, affine_map returns a matrix of shape [nk, nc] whose element (k, c) is
\* b[k] + sum over r of W[r, k] * X[r, c] (so X itself for the identity W and
\* zero b); it returns no matrix only when C had to be allocated and the
\* allocation failed.
C2_AffineMap ==
    (/\ pc = "done" /\ call.fn = "affine_map"
     /\ call.X # NULL /\ call.W # NULL /\ call.b # NULL) =>
        /\ ret.exit = "return"
        /\ ret.val = NULL =>
              /\ ~(env.malloc_ok /\ env.alloc_ok)
              /\ call.C = NULL \/ mem.mats[call.C].nr # mem.mats[call.W].nc
        /\ ret.val # NULL =>
              /\ mem.mats[ret.val].live
              /\ mem.mats[ret.val].nr = mem.mats[call.W].nc
              /\ mem.mats[ret.val].nc = mem.mats[call.X].nc
              /\ \A k \in 0 .. mem.mats[call.W].nc - 1, c \in 0 .. mem.mats[call.X].nc - 1 :
                    /\ Elt(mem, ret.val, k, c)
                          = FAdd(Elt(mem, call.b, k, 0), WtX(mem, call.W, call.X, k, c, 0))
                    /\ call.identity => Elt(mem, ret.val, k, c) = Elt(mem, call.X, k, c)

\* affine_map has reused a C of the right shape that held other contents and
\* garbage padding, for the identity W and a non-zero X with padding rows
C2_Witness ==
    /\ pc = "done" /\ call.fn = "affine_map"
    /\ call.X # NULL /\ call.W # NULL /\ call.b # NULL
    /\ call.identity
    /\ call.C # NULL /\ ret.val = call.C
    /\ mem.mats[call.X].nr = 5 /\ mem.mats[call.X].nc = 2
    /\ Data(mem, call.X)[6] = FNaN
    /\ Elt(mem, ret.val, 4, 1) = Elt(mem, call.X, 4, 1)
    /\ Elt(mem, ret.val, 4, 1) # F(0)
    /\ Elt(mem, ret.val, 4, 1) # F(MaxVal + 1)

\* the inputs a call requires, as passed
Required ==
    IF call.fn = "affine_map" THEN {call.X, call.W, call.b}
    ELSE {call.X, call.Xb, call.W, call.Wb, call.b}

\* the activations of a call (X, or Xf and Xb), as passed
Activations ==
    IF call.fn = "affine_map" THEN {call.X} ELSE {call.X, call.Xb}

---------------------------------------------------------------------------
(* Squiggle: sequence_to_squiggle of one base sequence *)

\* the characters of the input sequences: bases in either case, and others
Chars == {"A", "C", "G", "T", "a", "t", "N"}

InitSquiggle ==
    /\ build = Lp64Debug
    /\ mem = EmptyMem
    /\ \/ call \in [fn : {"sequence_to_squiggle"}, seq : {NullArray}, n : 0 .. MaxSeq,
                    rescale : BOOLEAN]
       \/ \E s \in [1 .. MaxSeq -> Chars] :
             call \in [fn : {"sequence_to_squiggle"}, seq : {ArrayPtr(s)},
                       n : 0 .. MaxSeq, rescale : BOOLEAN]
    /\ env = EnvOK
    /\ ret = NULL
    /\ pc = "start"

CallSequenceToSquiggle ==
    /\ pc = "start"
    /\ call.fn = "sequence_to_squiggle"
    /\ \E e \in Envs, u \in UBOutcomes, fwd_ok \in BOOLEAN :
         LET r == sequence_to_squiggle(build.abi, mem, call.seq, call.n, call.rescale,
                                       e, u, fwd_ok)
         IN  /\ ~e.widen
             /\ env' = e
             /\ mem' = r.mem
             /\ ret' = [val |-> r.ret, exit |-> r.exit, fwd |-> r.fwd, fwd_ok |-> fwd_ok]
    /\ pc' = "done"
    /\ UNCHANGED <<build, call>>

NextSquiggle == CallSequenceToSquiggle

SpecSquiggle == InitSquiggle /\ [][NextSquiggle]_vars

\* the index of a base in the alphabet A, C, G, T, in either case
BaseCode(ch) ==
    CASE ch \in {"A", "a"} -> 0
      [] ch \in {"C", "c"} -> 1
      [] ch \in {"G", "g"} -> 2
      [] ch \in {"T", "t"} -> 3

ValidBases == {"A", "C", "G", "T", "a", "c", "g", "t"}

\* the encoding is released, whatever became of it
NoEncodingLeft == \A h \in 1 .. Len(mem.ints) : ~mem.ints[h].live

\* C10: sequence_to_squiggle(seq, n, rescale) returns an absent result
\* whenever one of the first n characters is not a base, with the partial
\* encoding released and the forward pass not invoked; when all n are bases
\* (and the encoding could be allocated) the forward pass is handed the
\* encoding of length n with A=0, C=1, G=2, T=3, and the result is present
\* when the forward pass succeeds.
C10_SequenceToSquiggle ==
    (pc = "done" /\ call.fn = "sequence_to_squiggle" /\ ~call.seq.null) =>
        IF \E i \in 1 .. call.n : call.seq.a[i] \notin ValidBases
        THEN /\ ret.exit = "return"
             /\ ret.val = NULL
             /\ ret.fwd = <<>>
             /\ NoEncodingLeft
        ELSE env.calloc_ok =>
                /\ ret.exit = "return"
                /\ ret.fwd = <<[i \in 1 .. call.n |-> BaseCode(call.seq.a[i])]>>
                /\ NoEncodingLeft
                /\ (ret.fwd_ok /\ call.n > 0 /\ env.malloc_ok /\ env.alloc_ok) =>
                      (ret.val # NULL /\ mem.mats[ret.val].nc = call.n)

\* what does hold of sequence_to_squiggle: the statement of C10 in every call
\* in which calloc returned an array
SquiggleWhenCallocSucceeds ==
    env.calloc_ok => C10_SequenceToSquiggle

---------------------------------------------------------------------------
(* Main: main_squiggle over the files of the command line *)

MaxFiles == 2

MaxRecs == 2

\* the sequences of the records: one of bases, one with a character that is
\* no base
RecSeqs == {<<"a", "C">>, <<"G", "N">>}

\* a file of the command line: whether fopen succeeds on it, and the
\* sequences of its records in the order kseq_read returns them (none are
\* read of a file that does not open)
Files ==
    [readable : {TRUE}, recs : UNION {[1 .. k -> RecSeqs] : k \in 0 .. MaxRecs}]
        \cup {[readable |-> FALSE, recs |-> <<>>]}

\* the state of main_squiggle is kept in ret: the loop counter fn, the number
\* rec of records of the file read so far, reads_started, and the lines
\* written to args.output; last and fwd_ok tell of the latest call of
\* sequence_to_squiggle
InitMain ==
    /\ build = Lp64Debug
    /\ mem = EmptyMem
    /\ \E k \in 1 .. MaxFiles :
          call \in [fn : {"main_squiggle"}, files : [1 .. k -> Files],
                    limit : 0 .. MaxRecs, rescale : {TRUE}]
    /\ env = EnvOK
    /\ ret = [fn |-> 0, rec |-> 0, reads_started |-> 0, out |-> <<>>,
              last |-> "none", fwd_ok |-> TRUE]
    /\ pc = "for"

\* the choices of the environment that a call of sequence_to_squiggle gets
\* to: the outcome of the store through NULL when calloc failed, the forward
\* pass when calloc succeeded, malloc in a forward pass that goes well, and
\* aligned_alloc after a malloc that succeeded; the others are fixed
Reached(e, u, fwd_ok) ==
    /\ ~e.widen
    /\ e.calloc_ok => u = "segv"
    /\ ~e.calloc_ok => (fwd_ok /\ e.malloc_ok)
    /\ ~fwd_ok => e.malloc_ok
    /\ ~e.malloc_ok => e.alloc_ok

\* one pass through the head of the for loop (lines 156-165)
ForFile ==
    /\ pc = "for"
    /\ call.fn = "main_squiggle"
    /\ IF ret.fn >= Len(call.files)
       THEN pc' = "exit" /\ ret' = ret
       ELSE IF LimitReached(call.limit, ret.reads_started)
       THEN pc' = "exit" /\ ret' = ret
       ELSE IF ~call.files[ret.fn + 1].readable
       THEN pc' = "for" /\ ret' = [ret EXCEPT !.fn = @ + 1]
       ELSE pc' = "while" /\ ret' = [ret EXCEPT !.rec = 0]
    /\ UNCHANGED <<build, mem, call, env>>

\* one pass through the while loop (lines 167-186): kseq_read, the limit,
\* and the record
WhileRecord ==
    /\ pc = "while"
    /\ call.fn = "main_squiggle"
    /\ LET recs == call.files[ret.fn + 1].recs
       IN  IF ret.rec >= Len(recs) \/ LimitReached(call.limit, ret.reads_started)
           THEN /\ pc' = "for"
                /\ ret' = [ret EXCEPT !.fn = @ + 1]
                /\ UNCHANGED <<mem, env>>
           ELSE \E e \in Envs, u \in UBOutcomes, fwd_ok \in BOOLEAN :
                  LET r == SquiggleRecord(build.abi, mem, <<ret.fn + 1, ret.rec + 1>>,
                                          recs[ret.rec + 1], call.rescale, e, u, fwd_ok)
                  IN  /\ Reached(e, u, fwd_ok)
                      /\ env' = e
                      /\ mem' = r.mem
                      /\ pc' = IF r.last = "segv" THEN "killed" ELSE "while"
                      /\ ret' = [ret EXCEPT
                                   !.reads_started = @ + 1,
                                   !.rec = IF r.last = "segv" THEN @ ELSE @ + 1,
                                   !.out = @ \o r.lines,
                                   !.last = r.last,
                                   !.fwd_ok = fwd_ok]
    /\ UNCHANGED <<build, call>>

NextMain == ForFile \/ WhileRecord

SpecMain == InitMain /\ [][NextMain]_vars

\* the process runs on until it returns or is killed
SpecMainFair == SpecMain /\ WF_vars(NextMain)

\* record r of file f is in the input: the file opens and has that many
\* records
InInput(f, r) ==
    /\ f <= Len(call.files)
    /\ call.files[f].readable
    /\ r <= Len(call.files[f].recs)

\* the number of records of the readable files before file f
RECURSIVE RecordsBefore(_)
RecordsBefore(f) ==
    IF f <= 1 THEN 0
    ELSE RecordsBefore(f - 1) +
         (IF call.files[f - 1].readable THEN Len(call.files[f - 1].recs) ELSE 0)

\* the record is not cut off by the limit on the number of reads
WithinLimit(f, r) == call.limit = 0 \/ RecordsBefore(f) + r <= call.limit

\* the while loop has gone through record r of file f
Processed(f, r) ==
    \/ ret.fn >= f
    \/ ret.fn = f - 1 /\ pc = "while" /\ ret.rec >= r

\* the loop is about to hand a record to sequence_to_squiggle
AtRecord ==
    /\ pc = "while"
    /\ ret.rec < Len(call.files[ret.fn + 1].recs)
    /\ ~LimitReached(call.limit, ret.reads_started)

CurrentSeq == call.files[ret.fn + 1].recs[ret.rec + 1]

WellFormed(s) == \A i \in 1 .. Len(s) : s[i] \in ValidBases

\* what a step from AtRecord does with the record
RecordStep ==
    /\ ret'.last = "absent" =>
          /\ ret'.out = ret.out
          /\ pc' = "while" /\ ret'.fn = ret.fn /\ ret'.rec = ret.rec + 1
    /\ ~WellFormed(CurrentSeq) => ret'.last # "present"
    /\ (WellFormed(CurrentSeq) /\ AllocsOK(env') /\ ret'.fwd_ok) =>
          /\ ret'.last = "present"
          /\ Len(ret'.out) = Len(ret.out) + 1 + Len(CurrentSeq)
          /\ \A k \in 1 .. Len(ret.out) : ret'.out[k] = ret.out[k]
          /\ \A k \in Len(ret.out) + 1 .. Len(ret'.out) :
                ret'.out[k].name = <<ret.fn + 1, ret.rec + 1>>
          /\ pc' = "while" /\ ret'.rec = ret.rec + 1

\* every record of the input that the read limit does not cut off is gone
\* through in the end
EveryRecordProcessed ==
    <>(\A f \in 1 .. MaxFiles, r \in 1 .. MaxRecs :
          (InInput(f, r) /\ WithinLimit(f, r)) => Processed(f, r))

\* C11: in main_squiggle a record for which sequence_to_squiggle returns an
\* absent result (malformed sequence or internal allocation failure) writes
\* no output line and the loop goes on with the next record and file; a
\* failure on one record never ends the processing of the following inputs,
\* so every record after a failed one is gone through in the end, and written
\* when it is well formed and its calls succeed.
C11_FailureNeverTerminates ==
    /\ [][AtRecord => RecordStep]_vars
    /\ EveryRecordProcessed

\* what does hold of main_squiggle: a step at a record never writes for an
\* absent result and writes the lines of a well-formed record
MainRecordStep == [][AtRecord => RecordStep]_vars

\* and the process is never killed in a run in which calloc always returns an
\* array
MainNeverKilledWhenCallocSucceeds ==
    (call.fn = "main_squiggle" /\ pc = "killed") => ~env.calloc_ok

---------------------------------------------------------------------------
(* Remake: a caller that keeps one handle through make, remake, release *)

MaxOps == 3

\* the shapes asked for: the smallest and the largest row and column counts
RemakeShapes == {1, MaxNr} \X {1, MaxNc}

\* the allocator's choices that make_scrappie_matrix gets to
RemakeEnvs == {e \in Envs : ~e.widen /\ e.calloc_ok /\ (~e.malloc_ok => e.alloc_ok)}

\* what ret holds after an operation op(M, nr, nc) returned val: the heap
\* before the call is kept for comparison
Op(op, M, nr, nc, val) ==
    [op |-> op, M |-> M, nr |-> nr, nc |-> nc, val |-> val, before |-> mem]

\* call.h is the caller's handle, overwritten with every returned value;
\* call.ops counts the operations
InitRemake ==
    /\ build = Lp64Debug
    /\ mem = EmptyMem
    /\ call = [fn |-> "remake_scrappie_matrix", h |-> NULL, ops |-> 0]
    /\ env = EnvOK
    /\ ret = [op |-> "none", M |-> NULL, nr |-> 0, nc |-> 0, val |-> NULL,
              before |-> EmptyMem]
    /\ pc = "start"

\* h = make_scrappie_matrix(nr, nc), of a caller that holds no matrix
HandleMake ==
    /\ call.fn = "remake_scrappie_matrix" /\ call.ops < MaxOps
    /\ call.h = NULL
    /\ \E sh \in RemakeShapes, e \in RemakeEnvs :
         LET r == make_scrappie_matrix(build.abi, mem, sh[1], sh[2], e)
         IN  /\ env' = e
             /\ mem' = r.mem
             /\ call' = [call EXCEPT !.h = r.ret, !.ops = @ + 1]
             /\ ret' = Op("make", NULL, sh[1], sh[2], r.ret)
    /\ UNCHANGED <<build, pc>>

\* h = remake_scrappie_matrix(h, nr, nc)
HandleRemake ==
    /\ call.fn = "remake_scrappie_matrix" /\ call.ops < MaxOps
    /\ \E sh \in RemakeShapes, e \in RemakeEnvs :
         LET r == remake_scrappie_matrix(build.abi, mem, call.h, sh[1], sh[2], e)
         IN  /\ env' = e
             /\ mem' = r.mem
             /\ call' = [call EXCEPT !.h = r.ret, !.ops = @ + 1]
             /\ ret' = Op("remake", call.h, sh[1], sh[2], r.ret)
    /\ UNCHANGED <<build, pc>>

\* h = free_scrappie_matrix(h)
HandleRelease ==
    /\ call.fn = "remake_scrappie_matrix" /\ call.ops < MaxOps
    /\ LET r == free_scrappie_matrix(mem, call.h)
       IN  /\ mem' = r.mem
           /\ call' = [call EXCEPT !.h = r.ret, !.ops = @ + 1]
           /\ ret' = Op("release", call.h, 0, 0, r.ret)
    /\ UNCHANGED <<build, env, pc>>

\* h->data.f[i] = 1 for the first or the last element of the buffer
HandleStore ==
    /\ call.fn = "remake_scrappie_matrix" /\ call.ops < MaxOps
    /\ call.h # NULL
    /\ \E i \in {1, Len(Data(mem, call.h))} :
         mem' = SetData(mem, call.h, [Data(mem, call.h) EXCEPT ![i] = F(1)])
    /\ call' = [call EXCEPT !.ops = @ + 1]
    /\ ret' = Op("store", call.h, 0, 0, call.h)
    /\ UNCHANGED <<build, env, pc>>

NextRemake == HandleMake \/ HandleRemake \/ HandleRelease \/ HandleStore

SpecRemake == InitRemake /\ [][NextRemake]_vars

\* struct h and its buffer are allocated in heap m
Live(m, h) ==
    m.mats[h].live /\ m.mats[h].data # NULL /\ m.bufs[m.mats[h].data].live

\* struct h and its buffer, if it got one, are both released in heap m
Released(m, h) ==
    ~m.mats[h].live /\ (m.mats[h].data # NULL => ~m.bufs[m.mats[h].data].live)

\* the structs and buffers of heap b other than those of matrix M are in heap
\* m as they are in b
OthersKept(b, m, M) ==
    /\ \A h \in 1 .. Len(b.mats) : h # M => m.mats[h] = b.mats[h]
    /\ \A q \in 1 .. Len(b.bufs) :
          (M = NULL \/ q # b.mats[M].data) => m.bufs[q] = b.bufs[q]

\* val is a matrix allocated by the call that led from heap b to heap m, of
\* shape (nr, nc), all of whose elements are zero
FreshZero(b, m, val, nr, nc) ==
    /\ val > Len(b.mats) /\ m.mats[val].data > Len(b.bufs)
    /\ Live(m, val)
    /\ m.mats[val].nr = nr /\ m.mats[val].nc = nc
    /\ m.mats[val].nrq = CeilQuarter(nr)
    /\ Len(Data(m, val)) = 4 * CeilQuarter(nr) * nc
    /\ \A i \in 1 .. Len(Data(m, val)) : Data(m, val)[i] = F(0)

SameShape(b, M, nr, nc) == M # NULL /\ b.mats[M].nr = nr /\ b.mats[M].nc = nc

\* C12: remake_scrappie_matrix(M, nr, nc) of a present M of shape (nr, nc)
\* returns M with the heap, so every logical and padding element, unchanged;
\* of an absent M or one of another shape it releases M (struct and buffer,
\* once) and returns a fresh matrix of shape (nr, nc) with all elements zero,
\* or an absent result, and that only when an allocation failed; and through
\* any sequence of make, remake and release whose results overwrite the
\* caller's handle nothing is released twice or used after release, the
\* handle being absent or the one live matrix.
C12_Remake ==
    call.fn = "remake_scrappie_matrix" =>
        /\ mem.bad = {}
        /\ call.h = ret.val
        /\ \A h \in 1 .. Len(mem.mats) :
              IF h = call.h THEN Live(mem, h) ELSE Released(mem, h)
        /\ ret.op = "remake" =>
              IF SameShape(ret.before, ret.M, ret.nr, ret.nc)
              THEN ret.val = ret.M /\ mem = ret.before
              ELSE /\ ret.M # NULL => (Live(ret.before, ret.M) /\ Released(mem, ret.M))
                   /\ OthersKept(ret.before, mem, ret.M)
                   /\ ret.val = NULL => ~AllocsOK(env)
                   /\ ret.val # NULL =>
                         FreshZero(ret.before, mem, ret.val, ret.nr, ret.nc)

\* a matrix holding a stored 1 was remade to another shape
C12_Witness ==
    /\ call.fn = "remake_scrappie_matrix"
    /\ ret.op = "remake" /\ ret.M # NULL /\ ret.val # NULL
    /\ ~SameShape(ret.before, ret.M, ret.nr, ret.nc)
    /\ \E i \in 1 .. Len(Data(ret.before, ret.M)) : Data(ret.before, ret.M)[i] = F(1)

\* a matrix holding a stored 1 was remade to its own shape
RemadeInPlace ==
    /\ call.fn = "remake_scrappie_matrix"
    /\ ret.op = "remake" /\ SameShape(ret.before, ret.M, ret.nr, ret.nc)
    /\ \E i \in 1 .. Len(Data(mem, ret.val)) : Data(mem, ret.val)[i] = F(1)

=============================================================================
